---- MODULE Spec2Model ----
(***************************************************************************)
(* A model of tasker-lib's TaskRunner (src/lib/es2015/TaskRunner.js).      *)
(*                                                                         *)
(* The engine state is the task map, the in-progress flag and the options. *)
(* run() is one synchronous call: it traverses the graph depth first and   *)
(* builds the promise chains of every node it enters.  Everything after    *)
(* that happens in promise reactions, which the host runs one at a time    *)
(* from a FIFO job queue; each reaction is one step of RunMicrotask.  The   *)
(* environment registers tasks, starts runs and settles the work promises. *)
(***************************************************************************)
EXTENDS Naturals, Sequences, FiniteSets, TLC

\* ---------------------------------------------------------------- bounds
Names == {"a", "b", "c"}
\* run() calls that pass the in-progress gate in one behaviour
MaxRuns == 2
\* longest dependency list a caller builds
MaxDeps == 2
\* graph changes a client makes after its first run() call
MaxRepairs == 1
\* run() calls of a client of SpecConfigured
MaxConfiguredRuns == 1
\* run() calls of a client of SpecRerun
MaxReruns == 3

VARIABLES
    taskMap,         \* this.taskMap: registered name -> task object
    execInProgress,  \* this.execInProgress
    options,         \* this.options
    promises,        \* every promise a run created: id -> state, value, reactions
    microtasks,      \* the host's promise job queue (FIFO)
    runs,            \* number of run() calls that passed the gate
    succeeded,       \* names whose work has completed successfully since the
                     \* engine was last at rest
    hist,            \* observer notifications and work invocations, in order
    detached,        \* <<run, name>>: that run's closures hold a replaced task object
    thrown,          \* the error an API call has just thrown at its caller
                     \* ("" when no exception is in flight)
    repairs,         \* graph changes made after the first run() call
    failedRuns,      \* the runs whose returned promise has rejected
    lastCall         \* the last call of the client of SpecEdit, with the
                     \* dependencies it found on the node it names

vars == <<taskMap, execInProgress, options, promises, microtasks, runs, succeeded,
          hist, detached, thrown, repairs, failedRuns, lastCall>>

\* ------------------------------------------------------------ data helpers
Range(f) == {f[i] : i \in DOMAIN f}

\* this.taskMap[taskName] is truthy
Has(tm, n) == n \in DOMAIN tm

\* task.promise === null
NoPromise == <<>>

\* the graph: every registered name with its dependency list
Graph(tm) == [n \in DOMAIN tm |-> tm[n].dependencies]

\* the function f with key k set to v (k added when absent)
Put(f, k, v) == [x \in DOMAIN f \cup {k} |-> IF x = k THEN v ELSE f[x]]

\* the function f without key k
Drop(f, k) == [x \in DOMAIN f \ {k} |-> f[x]]

\* errors the engine creates, and the error a work function fails with
NotFoundError(n) == [kind |-> "notfound", node |-> n, run |-> 0]
CycleError(n) == [kind |-> "cycle", node |-> n, run |-> 0]
WorkError(r, n) == [kind |-> "work", node |-> n, run |-> r]
\* the value a work function produces
WorkResult(r, n) == [node |-> n, run |-> r]

\* ------------------------------------------------------------- promises
\* A promise is identified by the run, the node and the place of the chain
\* that created it:
\*   work   the promise the wrapped work function returns
\*   wrap   work.then(result => ({[taskName]: result}))
\*   fail   wrap.catch(onTaskFail; rethrow)            = runSingleTask(...)
\*   all    Promise.all(dependencies.map(runTask))
\*   merge  all.then(merge the results)
\*   cancel merge.catch(onTaskCancel; rethrow)
\*   rst    cancel.then(previous => runSingleTask(...))
\*   end    task.promise.then(onTaskEnd; task.promise = null)
\*   x1, x2, x3   the three promises run() chains on runTask(taskName)
Pid(r, n, stage) == <<r, n, stage>>

\* a new pending promise; need is the number of inputs of a Promise.all
NewPromise(need) == [st |-> "pending", val |-> <<>>, reacts |-> <<>>, need |-> need]

Reaction(h, r, n, i) == [h |-> h, r |-> r, n |-> n, i |-> i]

Job(rx, st, val) == [rx |-> rx, st |-> st, val |-> val]

\* settle a promise: every reaction registered on it becomes a job, in the
\* order of registration
Settle(s, pid, st, val) ==
    LET p == s.ps[pid]
        jobs == [i \in 1..Len(p.reacts) |-> Job(p.reacts[i], st, val)]
    IN [s EXCEPT !.ps[pid] = [p EXCEPT !.st = st, !.val = val, !.reacts = <<>>],
                 !.mq = @ \o jobs]

\* resolve or reject a promise that may already be settled (Promise.all's
\* reject function is called once per rejected input)
SettleOnce(s, pid, st, val) ==
    IF s.ps[pid].st = "pending" THEN Settle(s, pid, st, val) ELSE s

\* pid.then(...): a reaction on a pending promise waits, on a settled one it
\* is queued at once
Then(s, pid, rx) ==
    IF s.ps[pid].st = "pending"
    THEN [s EXCEPT !.ps[pid].reacts = Append(@, rx)]
    ELSE [s EXCEPT !.mq = Append(@, Job(rx, s.ps[pid].st, s.ps[pid].val))]

\* Promise.reject(err).then(...): the reaction is queued at once
ThenRejected(s, err, rx) == [s EXCEPT !.mq = Append(@, Job(rx, "rejected", err))]

\* a value returned by runTask: a promise of the table, or Promise.reject(err)
Returned(pid) == [rejected |-> FALSE, err |-> NotFoundError(""), pid |-> pid]
ReturnedRejection(err) == [rejected |-> TRUE, err |-> err, pid |-> NoPromise]

ThenOn(s, ret, rx) ==
    IF ret.rejected THEN ThenRejected(s, ret.err, rx) ELSE Then(s, ret.pid, rx)

\* o[k] is truthy: a property the object does not have reads as undefined
Truthy(o, k) == k \in DOMAIN o /\ o[k]

\* an observer of this.options is called (when it is configured)
Notify(s, e, r, n) ==
    IF Truthy(s.opt, "observers")
    THEN [s EXCEPT !.hist = Append(@, [e |-> e, r |-> r, n |-> n])]
    ELSE s

\* the observer for event e is configured and throws when it is called
Raises(o, e) == Truthy(o, "observers") /\ "raising" \in DOMAIN o /\ e \in o.raising

\* what such an observer throws
ObserverError(e, r, n) == [kind |-> "observer:" \o e, node |-> n, run |-> r]

\* the task object a closure of run r captured under name n is still the one
\* registered under n
SameObject(s, r, n) == Has(s.tm, n) /\ <<r, n>> \notin s.det

\* ------------------------------------------------------------ work
\* the promise a work function returned settles
WorkDone(s, r, n, ok) ==
    LET s1 == [s EXCEPT !.hist = Append(@, [e |-> "done", r |-> r, n |-> n, ok |-> ok]),
                        !.succ = IF ok THEN @ \cup {n} ELSE @]
    IN IF ok THEN Settle(s1, Pid(r, n, "work"), "fulfilled", WorkResult(r, n))
             ELSE Settle(s1, Pid(r, n, "work"), "rejected", WorkError(r, n))

\* runSingleTask(task, taskName, dependencyResults): call the work, chain the
\* wrapping of its result and the onTaskFail handler; the returned promise is
\* Pid(r, n, "fail").  The record of the call keeps the mapping passed, the
\* dependencies declared for the node now (own: the task object the closure
\* holds is still the registered one) and the work completed so far.  The promise the wrapped work returns settles later (at
\* the earliest before the next promise job).
RunSingleTask(s, r, n, dependencyResults) ==
    LET called == [e |-> "work", r |-> r, n |-> n, args |-> dependencyResults,
                   deps |-> IF SameObject(s, r, n)
                            THEN s.tm[n].dependencies ELSE <<>>,
                   own |-> SameObject(s, r, n),
                   done |-> s.succ]
        s1 == [s EXCEPT !.hist = Append(@, called)]
        ps1 == Put(s1.ps, Pid(r, n, "work"),
                   [NewPromise(0) EXCEPT !.reacts = <<Reaction("wrap", r, n, 0)>>])
        ps2 == Put(ps1, Pid(r, n, "wrap"),
                   [NewPromise(0) EXCEPT !.reacts = <<Reaction("fail", r, n, 0)>>])
        ps3 == Put(ps2, Pid(r, n, "fail"), NewPromise(0))
    IN [s1 EXCEPT !.ps = ps3]

\* ------------------------------------------------------------ runTask
\* Promise.all(inputs): one reaction per input, registered in order
RECURSIVE AllThen(_, _, _, _, _)
AllThen(s, r, n, rets, i) ==
    IF i > Len(rets) THEN s
    ELSE AllThen(ThenOn(s, rets[i], Reaction("allElem", r, n, i)), r, n, rets, i + 1)

\* task.promise = Promise.all(...).then(merge).catch(cancel).then(runSingleTask)
DependencyChain(s, r, n, rets) ==
    LET ps1 == Put(s.ps, Pid(r, n, "all"),
                   [NewPromise(Len(rets)) EXCEPT !.reacts = <<Reaction("merge", r, n, 0)>>])
        ps2 == Put(ps1, Pid(r, n, "merge"),
                   [NewPromise(0) EXCEPT !.reacts = <<Reaction("cancel", r, n, 0)>>])
        ps3 == Put(ps2, Pid(r, n, "cancel"),
                   [NewPromise(0) EXCEPT !.reacts = <<Reaction("rst", r, n, 0)>>])
        ps4 == Put(ps3, Pid(r, n, "rst"), NewPromise(0))
    IN AllThen([s EXCEPT !.ps = ps4], r, n, rets, 1)

\* return task.promise.then(onTaskEnd; task.promise = null)
ChainEnd(s, r, n) ==
    LET s1 == [s EXCEPT !.ps = Put(@, Pid(r, n, "end"), NewPromise(0))]
    IN Then(s1, s.tm[n].promise, Reaction("end", r, n, 0))

\* runTask(taskName) of run r, and the map over a dependency list.  The
\* result is the state after the call and the promise it returned.
RECURSIVE RunTask(_, _, _), MapRunTask(_, _, _, _, _)
\* runTask without the "if (task.promise) return task.promise" of lines 179-181
RunTask_NoSharing(s, r, n) ==
    IF ~Has(s.tm, n)
    THEN [s |-> s, ret |-> ReturnedRejection(NotFoundError(n))]
    ELSE IF s.tm[n].visited
    THEN [s |-> s, ret |-> ReturnedRejection(CycleError(n))]
    ELSE
        LET s1 == Notify(s, "start", r, n)
            s2 == [s1 EXCEPT !.tm[n].visited = TRUE]
            deps == s.tm[n].dependencies
            s3 == IF Len(deps) > 0
                  THEN LET m == MapRunTask(s2, r, deps, 1, <<>>)
                           c == DependencyChain(m.s, r, n, m.rets)
                       IN [c EXCEPT !.tm[n].promise = Pid(r, n, "rst")]
                  ELSE LET c == RunSingleTask(s2, r, n, <<>>)
                       IN [c EXCEPT !.tm[n].promise = Pid(r, n, "fail")]
            s4 == [s3 EXCEPT !.tm[n].visited = FALSE]
        IN [s |-> ChainEnd(s4, r, n), ret |-> Returned(Pid(r, n, "end"))]

\* runTask without the "task.visited = false" of line 211
RunTask_KeepsMarker(s, r, n) ==
    IF ~Has(s.tm, n)
    THEN [s |-> s, ret |-> ReturnedRejection(NotFoundError(n))]
    ELSE IF s.tm[n].visited
    THEN [s |-> s, ret |-> ReturnedRejection(CycleError(n))]
    ELSE IF s.tm[n].promise # NoPromise
    THEN [s |-> s, ret |-> Returned(s.tm[n].promise)]
    ELSE
        LET s1 == Notify(s, "start", r, n)
            s2 == [s1 EXCEPT !.tm[n].visited = TRUE]
            deps == s.tm[n].dependencies
            s3 == IF Len(deps) > 0
                  THEN LET m == MapRunTask(s2, r, deps, 1, <<>>)
                           c == DependencyChain(m.s, r, n, m.rets)
                       IN [c EXCEPT !.tm[n].promise = Pid(r, n, "rst")]
                  ELSE LET c == RunSingleTask(s2, r, n, <<>>)
                       IN [c EXCEPT !.tm[n].promise = Pid(r, n, "fail")]
        IN [s |-> ChainEnd(s3, r, n), ret |-> Returned(Pid(r, n, "end"))]

RunTask(s, r, n) ==
    IF ~Has(s.tm, n)
    THEN [s |-> s, ret |-> ReturnedRejection(NotFoundError(n))]
    ELSE IF s.tm[n].visited
    THEN [s |-> s, ret |-> ReturnedRejection(CycleError(n))]
    ELSE IF s.tm[n].promise # NoPromise
    THEN [s |-> s, ret |-> Returned(s.tm[n].promise)]
    ELSE
        LET s1 == Notify(s, "start", r, n)
            s2 == [s1 EXCEPT !.tm[n].visited = TRUE]
            deps == s.tm[n].dependencies
            s3 == IF Len(deps) > 0
                  THEN LET m == MapRunTask(s2, r, deps, 1, <<>>)
                           c == DependencyChain(m.s, r, n, m.rets)
                       IN [c EXCEPT !.tm[n].promise = Pid(r, n, "rst")]
                  ELSE LET c == RunSingleTask(s2, r, n, <<>>)
                       IN [c EXCEPT !.tm[n].promise = Pid(r, n, "fail")]
            s4 == [s3 EXCEPT !.tm[n].visited = FALSE]
        IN [s |-> ChainEnd(s4, r, n), ret |-> Returned(Pid(r, n, "end"))]

MapRunTask(s, r, deps, i, rets) ==
    IF i > Len(deps) THEN [s |-> s, rets |-> rets]
    ELSE LET o == RunTask(s, r, deps[i])
         IN MapRunTask(o.s, r, deps, i + 1, Append(rets, o.ret))

\* ------------------------------------------------------ promise reactions
\* the array Promise.all fulfils with: an object that is no mapping of task
\* names
ArrayValue(vals) == [array |-> vals]

\* Promise.race in the place of Promise.all: the first input to settle
\* settles the combined promise
OnAllElement_Race(s, job) ==
    LET pid == Pid(job.rx.r, job.rx.n, "all")
    IN IF job.st = "rejected" THEN SettleOnce(s, pid, "rejected", job.val)
       ELSE SettleOnce(s, pid, "fulfilled", ArrayValue(<<job.val>>))

\* Promise.all's reaction on input i: the first rejection rejects the
\* combined promise; the last fulfilment fulfils it with the array of values
OnAllElement(s, job) ==
    LET pid == Pid(job.rx.r, job.rx.n, "all")
        p == s.ps[pid]
        vals == Put(p.val, job.rx.i, job.val)
    IN IF job.st = "rejected" THEN SettleOnce(s, pid, "rejected", job.val)
       ELSE IF p.st # "pending" THEN s
       ELSE IF DOMAIN vals = 1..p.need THEN Settle(s, pid, "fulfilled", ArrayValue(vals))
       ELSE [s EXCEPT !.ps[pid].val = vals]

\* the merge loop: every key of every result that is a key of this.taskMap
RECURSIVE MergeResults(_, _, _, _)
MergeResults(tm, results, i, mergedResults) ==
    IF i > Len(results) THEN mergedResults
    ELSE LET result == results[i]
             keep == {k \in DOMAIN result : Has(tm, k)}
             next == [k \in DOMAIN mergedResults \cup keep |->
                         IF k \in keep THEN result[k] ELSE mergedResults[k]]
         IN MergeResults(tm, results, i + 1, next)

\* .then((results) => { ... return mergedResults; })
OnMerge(s, job) ==
    LET pid == Pid(job.rx.r, job.rx.n, "merge")
    IN IF job.st = "fulfilled"
       THEN Settle(s, pid, "fulfilled", MergeResults(s.tm, job.val.array, 1, <<>>))
       ELSE Settle(s, pid, "rejected", job.val)

\* a catch handler that notifies and does not rethrow
OnCancel_Swallows(s, job) ==
    LET pid == Pid(job.rx.r, job.rx.n, "cancel")
    IN IF job.st = "fulfilled" THEN Settle(s, pid, "fulfilled", job.val)
       ELSE Settle(Notify(s, "cancel", job.rx.r, job.rx.n), pid, "fulfilled", <<>>)

\* .catch((e) => { onTaskCancel(taskName); throw e; })
OnCancel(s, job) ==
    LET pid == Pid(job.rx.r, job.rx.n, "cancel")
    IN IF job.st = "fulfilled" THEN Settle(s, pid, "fulfilled", job.val)
       ELSE Settle(Notify(s, "cancel", job.rx.r, job.rx.n), pid, "rejected",
                   IF Raises(s.opt, "cancel")
                   THEN ObserverError("cancel", job.rx.r, job.rx.n) ELSE job.val)

\* .then((previousResults) => this.runSingleTask(task, taskName, previousResults)):
\* the handler returns a promise, so the host queues a job that will chain
\* the derived promise on it
OnRunSingle(s, job) ==
    LET r == job.rx.r
        n == job.rx.n
    IN IF job.st = "fulfilled"
       THEN LET c == RunSingleTask(s, r, n, job.val)
            IN [c EXCEPT !.mq = Append(@, Job(Reaction("adopt", r, n, 0), "fulfilled", <<>>))]
       ELSE Settle(s, Pid(r, n, "rst"), "rejected", job.val)

\* the queued job: runSingleTask's promise .then(resolve, reject) of the derived one
OnAdopt(s, job) == Then(s, Pid(job.rx.r, job.rx.n, "fail"), Reaction("pass", job.rx.r, job.rx.n, 0))

OnPass(s, job) == Settle(s, Pid(job.rx.r, job.rx.n, "rst"), job.st, job.val)

\* .then((result) => { return { [taskName]: result }; })
OnWrap(s, job) ==
    LET pid == Pid(job.rx.r, job.rx.n, "wrap")
    IN IF job.st = "fulfilled" THEN Settle(s, pid, "fulfilled", job.rx.n :> job.val)
       ELSE Settle(s, pid, "rejected", job.val)

\* a catch handler that rethrows without notifying
OnFail_Silent(s, job) ==
    LET pid == Pid(job.rx.r, job.rx.n, "fail")
    IN Settle(s, pid, job.st, job.val)

\* .catch((e) => { onTaskFail(taskName); throw e; })
OnFail(s, job) ==
    LET pid == Pid(job.rx.r, job.rx.n, "fail")
    IN IF job.st = "fulfilled" THEN Settle(s, pid, "fulfilled", job.val)
       ELSE Settle(Notify(s, "fail", job.rx.r, job.rx.n), pid, "rejected",
                   IF Raises(s.opt, "fail")
                   THEN ObserverError("fail", job.rx.r, job.rx.n) ELSE job.val)

\* task.promise.then((result) => { onTaskEnd(taskName); task.promise = null;
\* return result; }): a fulfilment handler only
OnEnd(s, job) ==
    LET r == job.rx.r
        n == job.rx.n
        pid == Pid(r, n, "end")
    IN IF job.st = "fulfilled"
       THEN LET s1 == Notify(s, "end", r, n)
                s2 == IF SameObject(s1, r, n)
                      THEN [s1 EXCEPT !.tm[n].promise = NoPromise] ELSE s1
            IN IF Raises(s.opt, "end")
               THEN Settle(s1, pid, "rejected", ObserverError("end", r, n))
               ELSE Settle(s2, pid, "fulfilled", job.val)
       ELSE Settle(s, pid, "rejected", job.val)

\* null and undefined results
NoResult == [node |-> "", run |-> 0]

\* the first handler of run() passing the whole mapping on
OnExtract_WholeMapping(s, job) ==
    LET pid == Pid(job.rx.r, job.rx.n, "x1")
    IN Settle(s, pid, job.st, job.val)

\* .then((results) => results ? results[taskName] : null)
OnExtract(s, job) ==
    LET pid == Pid(job.rx.r, job.rx.n, "x1")
    IN IF job.st = "fulfilled"
       THEN Settle(s, pid, "fulfilled",
                   IF job.rx.n \in DOMAIN job.val THEN job.val[job.rx.n] ELSE NoResult)
       ELSE Settle(s, pid, "rejected", job.val)

\* .then((results) => { this.execInProgress = false; return results; })
OnRunFulfilled(s, job) ==
    LET pid == Pid(job.rx.r, job.rx.n, "x2")
    IN IF job.st = "fulfilled"
       THEN Settle([s EXCEPT !.flag = FALSE], pid, "fulfilled", job.val)
       ELSE Settle(s, pid, "rejected", job.val)

\* a catch handler of run() that rethrows and leaves the flag set
OnRunRejected_KeepsFlag(s, job) ==
    LET pid == Pid(job.rx.r, job.rx.n, "x3")
    IN Settle(s, pid, job.st, job.val)

\* .catch((error) => { this.execInProgress = false; throw error; })
OnRunRejected(s, job) ==
    LET pid == Pid(job.rx.r, job.rx.n, "x3")
    IN IF job.st = "fulfilled" THEN Settle(s, pid, "fulfilled", job.val)
       ELSE Settle([s EXCEPT !.flag = FALSE], pid, "rejected", job.val)

Handle(s, job) ==
    CASE job.rx.h = "allElem" -> OnAllElement(s, job)
      [] job.rx.h = "merge" -> OnMerge(s, job)
      [] job.rx.h = "cancel" -> OnCancel(s, job)
      [] job.rx.h = "rst" -> OnRunSingle(s, job)
      [] job.rx.h = "adopt" -> OnAdopt(s, job)
      [] job.rx.h = "pass" -> OnPass(s, job)
      [] job.rx.h = "wrap" -> OnWrap(s, job)
      [] job.rx.h = "fail" -> OnFail(s, job)
      [] job.rx.h = "end" -> OnEnd(s, job)
      [] job.rx.h = "x1" -> OnExtract(s, job)
      [] job.rx.h = "x2" -> OnRunFulfilled(s, job)
      [] job.rx.h = "x3" -> OnRunRejected(s, job)

\* ------------------------------------------------------------ the engine
DEFAULT_OPTIONS == [throwOnOverwrite |-> TRUE]

\* new TaskRunner(...): the arguments a caller passes, none or an options
\* object that sets some of throwOnOverwrite and the observers
ConstructorArgs ==
    {<<>>, <<[observers |-> TRUE]>>, <<[throwOnOverwrite |-> FALSE]>>,
     <<[throwOnOverwrite |-> TRUE, observers |-> TRUE]>>}

\* constructor(options = DEFAULT_OPTIONS): this.options
Constructor(args) == IF args = <<>> THEN DEFAULT_OPTIONS ELSE args[1]

\* the option objects a caller constructs the runner with
OptionChoices == {[throwOnOverwrite |-> TRUE, observers |-> TRUE]}

\* a call op(name, d), and what it found under name: <<>> when name was not
\* registered, else the node's dependencies
Call(op, name, d, before) == [op |-> op, name |-> name, d |-> d, before |-> before]

Found(tm, name) == IF Has(tm, name) THEN <<tm[name].dependencies>> ELSE <<>>

\* constructor: the fields of a new engine, and nothing has happened yet
Constructed ==
    /\ taskMap = <<>>
    /\ execInProgress = FALSE
    /\ promises = <<>>
    /\ microtasks = <<>>
    /\ runs = 0
    /\ succeeded = {}
    /\ hist = <<>>
    /\ detached = {}
    /\ thrown = ""
    /\ repairs = 0
    /\ failedRuns = {}
    /\ lastCall = Call("", "", <<"undefined">>, <<>>)

\* constructor
Init ==
    /\ Constructed
    /\ options \in OptionChoices

\* the state a call or a promise job works on
Pack ==
    [tm |-> taskMap, ps |-> promises, mq |-> microtasks, hist |-> hist,
     flag |-> execInProgress, opt |-> options, det |-> detached, succ |-> succeeded]

Unpack(s) ==
    /\ hist' = s.hist
    /\ execInProgress' = s.flag
    /\ succeeded' = s.succ
    /\ taskMap' = s.tm
    /\ promises' = s.ps
    /\ microtasks' = s.mq

\* no promise job is queued and no work is still running
Quiescent ==
    /\ microtasks = <<>>
    /\ \A pid \in DOMAIN promises : pid[3] = "work" => promises[pid].st # "pending"

\* the promises a task object still points to
Referenced == {taskMap[n].promise : n \in DOMAIN taskMap} \ {NoPromise}

\* Settled promises nobody can reach, and the record of what was observed,
\* are dropped once everything has come to rest.
Garbage ==
    /\ Quiescent
    /\ \/ hist # <<>>
       \/ DOMAIN promises # Referenced
       \/ detached # {}
       \/ succeeded # {}

Collect ==
    /\ Garbage
    /\ hist' = <<>>
    /\ promises' = [pid \in Referenced |-> promises[pid]]
    /\ detached' = {}
    /\ succeeded' = {}
    /\ UNCHANGED <<taskMap, execInProgress, options, microtasks, runs, thrown, repairs, failedRuns>>

\* throwIfInProgress() throws
InProgressError == "You cannot modify the task tree while execution is in progress."

Throws(error) ==
    /\ thrown' = error
    /\ UNCHANGED <<taskMap, execInProgress, options, promises, microtasks, runs,
                   succeeded, hist, detached, repairs, failedRuns>>

\* the caller has the exception; nothing else ran in between
Caught ==
    /\ thrown # ""
    /\ thrown' = ""
    /\ UNCHANGED <<taskMap, execInProgress, options, promises, microtasks, runs,
                   succeeded, hist, detached, repairs, failedRuns>>

\* a dependencies argument: omitted, one name, an array of names, or (the
\* two-argument form) the work function
AsArray(d) ==
    CASE d[1] = "string" -> <<d[2]>>
      [] d[1] = "array" -> d[2]
      [] OTHER -> <<>>

\* the function stored as the node's work: the one passed, as third argument
\* or in place of the dependencies, and a default when none is passed
WorkOf(d, task) ==
    IF d[1] = "function" THEN d[2]
    ELSE IF task = "undefined" THEN "default"
    ELSE task

\* the work function the clients of Spec pass to every addTask call
Work == "f"

\* the addTask calls a client makes: <<taskName, dependencies>>
TaskInputs ==
    {<<"a", <<"undefined">>>>, <<"a", <<"string", "b">>>>,
     <<"a", <<"array", <<"b", "c">>>>>>, <<"a", <<"array", <<"a", "c">>>>>>,
     <<"a", <<"array", <<"b", "b">>>>>>,
     <<"b", <<"undefined">>>>, <<"b", <<"string", "c">>>>, <<"b", <<"string", "a">>>>,
     <<"c", <<"undefined">>>>, <<"c", <<"array", <<"b">>>>>>}

\* the addDependencies and removeDependencies calls a client makes
EdgeInputs == {<<n, <<"string", "a">>>> : n \in Names}

\* the closures of earlier runs that still hold the task object of name n:
\* the runs whose onTaskEnd continuation for n has not run
Closures(n) ==
    {<<r, n>> : r \in {q \in 1..runs : /\ Pid(q, n, "end") \in DOMAIN promises
                                       /\ promises[Pid(q, n, "end")].st = "pending"}}

\* a graph change returned normally
Changed ==
    /\ runs = 0 \/ repairs < MaxRepairs
    /\ repairs' = IF runs = 0 THEN 0 ELSE repairs + 1
    /\ thrown' = ""
    /\ UNCHANGED failedRuns

NewTask(dependencies, task) ==
    [dependencies |-> dependencies, promise |-> NoPromise, visited |-> FALSE,
     task |-> task]

\* addTask without the throwIfInProgress() of line 39
AddTask_NoGate(taskName, d, task) ==
    IF Truthy(options, "throwOnOverwrite") /\ Has(taskMap, taskName)
    THEN Throws("Task already exists.")
    ELSE /\ taskMap' = Put(taskMap, taskName, NewTask(AsArray(d), WorkOf(d, task)))
         /\ detached' = detached \cup Closures(taskName)
         /\ Changed
         /\ UNCHANGED <<execInProgress, options, promises, microtasks, runs,
                        succeeded, hist>>

\* addTask refusing every registered name, whatever options.throwOnOverwrite
AddTask_NeverOverwrites(taskName, d, task) ==
    IF execInProgress THEN Throws(InProgressError)
    ELSE IF Has(taskMap, taskName)
    THEN Throws("Task already exists.")
    ELSE /\ taskMap' = Put(taskMap, taskName, NewTask(AsArray(d), WorkOf(d, task)))
         /\ detached' = detached \cup Closures(taskName)
         /\ Changed
         /\ UNCHANGED <<execInProgress, options, promises, microtasks, runs,
                        succeeded, hist>>

\* addTask(taskName, dependencies, task)
AddTask(taskName, d, task) ==
    IF execInProgress THEN Throws(InProgressError)
    ELSE IF Truthy(options, "throwOnOverwrite") /\ Has(taskMap, taskName)
    THEN Throws("Task already exists.")
    ELSE /\ taskMap' = Put(taskMap, taskName, NewTask(AsArray(d), WorkOf(d, task)))
         /\ detached' = detached \cup Closures(taskName)
         /\ Changed
         /\ UNCHANGED <<execInProgress, options, promises, microtasks, runs,
                        succeeded, hist>>

\* removeTask(taskName)
RemoveTask(taskName) ==
    IF execInProgress THEN Throws(InProgressError)
    ELSE /\ taskMap' = Drop(taskMap, taskName)
         /\ Changed
         /\ UNCHANGED <<execInProgress, options, promises, microtasks, runs,
                        succeeded, hist, detached>>

\* the push loop without its indexOf test
RECURSIVE PushMissing_Always(_, _, _)
PushMissing_Always(list, dependencies, i) ==
    IF i > Len(dependencies) THEN list
    ELSE PushMissing_Always(Append(list, dependencies[i]), dependencies, i + 1)

\* the push loop of addDependencies
RECURSIVE PushMissing(_, _, _)
PushMissing(list, dependencies, i) ==
    IF i > Len(dependencies) THEN list
    ELSE PushMissing(IF dependencies[i] \in Range(list) THEN list
                     ELSE Append(list, dependencies[i]),
                     dependencies, i + 1)

\* addDependencies(taskName, dependencies)
AddDependencies(taskName, d) ==
    IF execInProgress THEN Throws(InProgressError)
    ELSE IF ~Has(taskMap, taskName) THEN Throws("Can't add dependency for missing task")
    ELSE LET list == PushMissing(taskMap[taskName].dependencies, AsArray(d), 1)
         IN /\ Len(list) <= MaxDeps
            /\ taskMap' = [taskMap EXCEPT ![taskName].dependencies = list]
            /\ Changed
            /\ UNCHANGED <<execInProgress, options, promises, microtasks, runs,
                           succeeded, hist, detached>>

\* a filter that drops only the first listed name it meets
Without_FirstOnly(list, dependencies) ==
    IF list = <<>> THEN <<>>
    ELSE IF Head(list) \in Range(dependencies) THEN Tail(list)
    ELSE <<Head(list)>> \o Tail(list)

\* dependencies.filter(...) of removeDependencies
RECURSIVE Without(_, _)
Without(list, dependencies) ==
    IF list = <<>> THEN <<>>
    ELSE IF Head(list) \in Range(dependencies) THEN Without(Tail(list), dependencies)
    ELSE <<Head(list)>> \o Without(Tail(list), dependencies)

\* removeDependencies(taskName, dependencies)
RemoveDependencies(taskName, d) ==
    IF execInProgress THEN Throws(InProgressError)
    ELSE /\ taskMap' = IF Has(taskMap, taskName)
                       THEN [taskMap EXCEPT ![taskName].dependencies =
                                                Without(@, AsArray(d))]
                       ELSE taskMap
         /\ Changed
         /\ UNCHANGED <<execInProgress, options, promises, microtasks, runs,
                        succeeded, hist, detached>>

\* the three promises run() chains on what runTask returned
RunChain(s, r, taskName, ret) ==
    LET ps1 == Put(s.ps, Pid(r, taskName, "x1"),
                   [NewPromise(0) EXCEPT !.reacts = <<Reaction("x2", r, taskName, 0)>>])
        ps2 == Put(ps1, Pid(r, taskName, "x2"),
                   [NewPromise(0) EXCEPT !.reacts = <<Reaction("x3", r, taskName, 0)>>])
        ps3 == Put(ps2, Pid(r, taskName, "x3"), NewPromise(0))
    IN ThenOn([s EXCEPT !.ps = ps3], ret, Reaction("x1", r, taskName, 0))

\* run without the throwIfInProgress() of line 160
Run_NoGate(taskName) ==
    /\ runs < MaxRuns
    /\ LET r == runs + 1
           o == RunTask([Pack EXCEPT !.flag = TRUE], r, taskName)
       IN Unpack(RunChain(o.s, r, taskName, o.ret))
    /\ runs' = runs + 1
    /\ thrown' = ""
    /\ UNCHANGED <<options, detached, repairs, failedRuns>>

\* run(taskName), for a client that makes at most limit calls that pass the gate
RunWithin(taskName, limit) ==
    IF execInProgress THEN Throws(InProgressError)
    ELSE /\ runs < limit
         /\ LET r == runs + 1
                o == RunTask([Pack EXCEPT !.flag = TRUE], r, taskName)
            IN Unpack(RunChain(o.s, r, taskName, o.ret))
         /\ runs' = runs + 1
         /\ thrown' = ""
         /\ UNCHANGED <<options, detached, repairs, failedRuns>>

\* run(taskName)
Run(taskName) == RunWithin(taskName, MaxRuns)

\* the host runs the oldest promise job
RunMicrotask ==
    /\ microtasks # <<>>
    /\ UNCHANGED <<options, runs, detached, thrown, repairs>>
    /\ Unpack(Handle([Pack EXCEPT !.mq = Tail(microtasks)], Head(microtasks)))
    /\ failedRuns' = IF Head(microtasks).rx.h = "x3" /\ Head(microtasks).st = "rejected"
                      THEN failedRuns \cup {Head(microtasks).rx.r} ELSE failedRuns

\* a work function that was running completes or fails
WorkSettles(r, n, ok) ==
    /\ Pid(r, n, "work") \in DOMAIN promises
    /\ promises[Pid(r, n, "work")].st = "pending"
    /\ Unpack(WorkDone(Pack, r, n, ok))
    /\ UNCHANGED <<options, runs, detached, thrown, repairs, failedRuns>>

\* the client makes a call when no exception is in flight and the bookkeeping
\* of finished runs has been dropped
Ready == thrown = "" /\ ~Garbage

\* throwIfInProgress() comes first in every operation, so while a run is in
\* progress all calls of one operation end alike: one of them is explored
Tried(S) == IF execInProgress THEN {CHOOSE c \in S : TRUE} ELSE S

Next ==
    \/ \E c \in Tried(TaskInputs) :
           Ready /\ AddTask(c[1], c[2], Work) /\ UNCHANGED lastCall
    \/ \E n \in Tried(Names) : Ready /\ RemoveTask(n) /\ UNCHANGED lastCall
    \/ \E c \in Tried(EdgeInputs) :
           Ready /\ AddDependencies(c[1], c[2]) /\ UNCHANGED lastCall
    \/ \E c \in Tried(EdgeInputs) :
           Ready /\ RemoveDependencies(c[1], c[2]) /\ UNCHANGED lastCall
    \/ \E n \in Tried(Names) : Ready /\ Run(n) /\ UNCHANGED lastCall
    \/ thrown = "" /\ RunMicrotask /\ UNCHANGED lastCall
    \/ \E r \in 1..MaxRuns, n \in Names, ok \in BOOLEAN :
           thrown = "" /\ WorkSettles(r, n, ok) /\ UNCHANGED lastCall
    \/ thrown = "" /\ Collect /\ UNCHANGED lastCall
    \/ Caught /\ UNCHANGED lastCall

Spec == Init /\ [][Next]_vars

\* ------------------------------------------- engines constructed in any way
\* The engine is constructed with any of ConstructorArgs; its client passes
\* different work functions, in both forms of addTask, and calls run() at
\* most MaxConfiguredRuns times.
InitConfigured ==
    /\ Constructed
    /\ options \in {Constructor(args) : args \in ConstructorArgs}

\* the addTask calls of that client: <<taskName, dependencies, task>>
ConfiguredTaskInputs ==
    {<<c[1], c[2], Work>> : c \in TaskInputs}
    \cup {<<"c", <<"undefined">>, "g">>, <<"c", <<"function", "g">>, "undefined">>,
          <<"b", <<"string", "c">>, "undefined">>}

NextConfigured ==
    \/ \E c \in Tried(ConfiguredTaskInputs) :
           Ready /\ AddTask(c[1], c[2], c[3]) /\ UNCHANGED lastCall
    \/ \E n \in Tried(Names) : Ready /\ RemoveTask(n) /\ UNCHANGED lastCall
    \/ \E c \in Tried(EdgeInputs) :
           Ready /\ AddDependencies(c[1], c[2]) /\ UNCHANGED lastCall
    \/ \E c \in Tried(EdgeInputs) :
           Ready /\ RemoveDependencies(c[1], c[2]) /\ UNCHANGED lastCall
    \/ \E n \in Tried(Names) :
           /\ Ready
           /\ execInProgress \/ runs < MaxConfiguredRuns
           /\ Run(n)
           /\ UNCHANGED lastCall
    \/ thrown = "" /\ RunMicrotask /\ UNCHANGED lastCall
    \/ \E r \in 1..MaxRuns, n \in Names, ok \in BOOLEAN :
           thrown = "" /\ WorkSettles(r, n, ok) /\ UNCHANGED lastCall
    \/ thrown = "" /\ Collect /\ UNCHANGED lastCall
    \/ Caught /\ UNCHANGED lastCall

SpecConfigured == InitConfigured /\ [][NextConfigured]_vars

\* ------------------------------------------------ observers that can throw
\* The options a caller passes: none, the observers, or observers of which
\* onTaskFail, onTaskCancel or both throw.
ObserverArgs ==
    {<<>>, <<[throwOnOverwrite |-> TRUE, observers |-> TRUE]>>}
    \cup {<<[throwOnOverwrite |-> TRUE, observers |-> TRUE, raising |-> R]>> :
              R \in {{"fail"}, {"cancel"}, {"fail", "cancel"}}}

InitObserved ==
    /\ Constructed
    /\ options \in {Constructor(args) : args \in ObserverArgs}

SpecObserved == InitObserved /\ [][NextConfigured]_vars

\* ------------------------------------------------------ editing the graph
\* A client that only edits the graph, with every shape of the dependencies
\* argument: one name, or an array of up to MaxDeps names, repeated or not.
\* The names it depends on are those of EditNames.
EditNames == {"a", "b"}

EditDependencies ==
    {<<"string", x>> : x \in EditNames}
    \cup {<<"array", s>> : s \in UNION {[1..k -> EditNames] : k \in 0..MaxDeps}}

EditTaskInputs ==
    {<<n, d, Work>> : n \in Names, d \in EditDependencies \cup {<<"undefined">>}}

EditEdgeInputs == {<<n, d>> : n \in Names, d \in EditDependencies}

NextEdit ==
    \/ \E c \in EditTaskInputs :
           /\ thrown = ""
           /\ AddTask(c[1], c[2], c[3])
           /\ lastCall' = Call("addTask", c[1], c[2], Found(taskMap, c[1]))
    \/ \E n \in Names :
           /\ thrown = ""
           /\ RemoveTask(n)
           /\ lastCall' = Call("removeTask", n, <<"undefined">>, Found(taskMap, n))
    \/ \E c \in EditEdgeInputs :
           /\ thrown = ""
           /\ AddDependencies(c[1], c[2])
           /\ lastCall' = Call("addDependencies", c[1], c[2], Found(taskMap, c[1]))
    \/ \E c \in EditEdgeInputs :
           /\ thrown = ""
           /\ RemoveDependencies(c[1], c[2])
           /\ lastCall' = Call("removeDependencies", c[1], c[2], Found(taskMap, c[1]))
    \/ Caught /\ UNCHANGED lastCall

SpecEdit == Init /\ [][NextEdit]_vars

\* ------------------------------------------------------ reading the graph
\* getTaskList calling throwIfInProgress() first, as the other operations do
GetTaskList_Gated ==
    IF execInProgress
    THEN Throws(InProgressError)
         /\ lastCall' = Call("getTaskList", "", <<"undefined">>, <<>>)
    ELSE /\ lastCall' = Call("getTaskList", "", <<"undefined">>, <<Graph(taskMap)>>)
         /\ UNCHANGED <<taskMap, execInProgress, options, promises, microtasks, runs,
                        succeeded, hist, detached, thrown, repairs, failedRuns>>

\* the loop of getTaskList: map[taskName] = this.taskMap[taskName].dependencies
\* for the keys still to visit
RECURSIVE TaskListOf(_, _, _)
TaskListOf(tm, keys, map) ==
    IF keys = {} THEN map
    ELSE LET taskName == CHOOSE k \in keys : TRUE
         IN TaskListOf(tm, keys \ {taskName}, Put(map, taskName, tm[taskName].dependencies))

\* getTaskList(): the mapping goes to the caller, kept in lastCall.before
GetTaskList ==
    /\ lastCall' = Call("getTaskList", "", <<"undefined">>,
                        <<TaskListOf(taskMap, DOMAIN taskMap, <<>>)>>)
    /\ UNCHANGED <<taskMap, execInProgress, options, promises, microtasks, runs,
                   succeeded, hist, detached, thrown, repairs, failedRuns>>

\* the caller has the mapping; nothing else ran in between
Received ==
    /\ lastCall.op = "getTaskList"
    /\ lastCall' = Call("", "", <<"undefined">>, <<>>)
    /\ UNCHANGED <<taskMap, execInProgress, options, promises, microtasks, runs,
                   succeeded, hist, detached, thrown, repairs, failedRuns>>

\* A client that also reads the graph, at any moment: between its other
\* calls, while a run is in progress, between two promise jobs.
NextRead ==
    \/ lastCall.op = "" /\ NextConfigured
    \/ lastCall.op = "" /\ thrown = "" /\ GetTaskList
    \/ Received

SpecRead == Init /\ [][NextRead]_vars

\* ------------------------------------------------------------ the graph
\* the names reachable from the names of S along declared dependencies
RECURSIVE Reach(_, _)
Reach(tm, S) ==
    LET T == S \cup UNION {Range(tm[m].dependencies) : m \in S \cap DOMAIN tm}
    IN IF T = S THEN S ELSE Reach(tm, T)

\* the requested node and the transitive closure of its dependencies
Closure(tm, n) == Reach(tm, {n})

\* every name of the closure is registered
Complete(tm, n) == Closure(tm, n) \subseteq DOMAIN tm

\* m depends on itself, directly or through other nodes
OnCycle(tm, m) == Has(tm, m) /\ m \in Reach(tm, Range(tm[m].dependencies))

\* a cycle is reachable from n
Cyclic(tm, n) == \E m \in Closure(tm, n) : OnCycle(tm, m)

\* the places of h that record event e of node n in run r
Events(h, e, r, n) == {i \in DOMAIN h : h[i].e = e /\ h[i].r = r /\ h[i].n = n}

\* The step in which run r of node n clears the in-progress flag with a
\* result: the handler of lines 164-167 runs, and the returned promise is
\* fulfilled by the job this queues.
RunResolves(r, n) ==
    /\ execInProgress /\ ~execInProgress'
    /\ microtasks # <<>>
    /\ Head(microtasks).rx = Reaction("x2", r, n, 0)

\* The step in which the promise run r of node n returned is rejected with
\* error: the handler of lines 168-171 runs.
RunRejects(r, n, error) ==
    /\ execInProgress /\ ~execInProgress'
    /\ microtasks # <<>>
    /\ Head(microtasks).rx = Reaction("x3", r, n, 0)
    /\ Head(microtasks).val = error

\* the promise run r returned has settled
RunSettled(r) ==
    \E n \in Names : /\ Pid(r, n, "x3") \in DOMAIN promises
                     /\ promises[Pid(r, n, "x3")].st # "pending"

\* the promise run r returned is still pending
RunPending(r) ==
    \E n \in Names : /\ Pid(r, n, "x3") \in DOMAIN promises
                     /\ promises[Pid(r, n, "x3")].st = "pending"

\* every work function that completed, as far as h records, succeeded
AllWorkSucceeded(h) == \A i \in DOMAIN h : h[i].e = "done" => h[i].ok

\* no work function has failed: none that h records, and no promise of ps
\* carries the error of one
NoWorkFailed(h, ps) ==
    /\ AllWorkSucceeded(h)
    /\ \A pid \in DOMAIN ps : ps[pid].st = "rejected" => ps[pid].val.kind # "work"

\* the names whose work has failed, as far as h records
FailedWork(h) == {h[i].n : i \in {j \in DOMAIN h : h[j].e = "done" /\ ~h[j].ok}}

\* the resolution of d fails: a node of its closure is missing, lies on a
\* cycle, or its work has failed
ResolutionFails(tm, h, d) ==
    \/ ~Complete(tm, d)
    \/ Cyclic(tm, d)
    \/ Closure(tm, d) \cap FailedWork(h) # {}

\* the resolution of a declared dependency of N fails
DependencyFails(tm, h, N) ==
    /\ Has(tm, N)
    /\ \E d \in Range(tm[N].dependencies) : ResolutionFails(tm, h, d)

\* the errors of the failed resolutions below n
FailureErrors(tm, h, n) ==
    {NotFoundError(m) : m \in Closure(tm, n) \ DOMAIN tm}
    \cup {CycleError(m) : m \in {x \in Closure(tm, n) : OnCycle(tm, x)}}
    \cup {WorkError(h[i].r, h[i].n) : i \in {j \in DOMAIN h : h[j].e = "done" /\ ~h[j].ok}}

\* the step is a call of one of the four mutation operations
MutationCall ==
    \/ \E c \in TaskInputs : AddTask(c[1], c[2], Work)
    \/ \E n \in Names : RemoveTask(n)
    \/ \E c \in EdgeInputs : AddDependencies(c[1], c[2])
    \/ \E c \in EdgeInputs : RemoveDependencies(c[1], c[2])

\* the step is a mutation call whose arguments are valid: what it adds is not
\* registered yet, what it adds dependencies to is
ValidMutationCall ==
    \/ \E c \in TaskInputs : ~Has(taskMap, c[1]) /\ AddTask(c[1], c[2], Work)
    \/ \E n \in Names : RemoveTask(n)
    \/ \E c \in EdgeInputs : Has(taskMap, c[1]) /\ AddDependencies(c[1], c[2])
    \/ \E c \in EdgeInputs : RemoveDependencies(c[1], c[2])

\* the runs that hold the in-progress flag: started, and neither of the
\* handlers of lines 164-171 that clear it has run
InFlight ==
    {r \in 1..runs :
        \E n \in Names :
            /\ Pid(r, n, "x3") \in DOMAIN promises
            /\ promises[Pid(r, n, "x2")].st # "fulfilled"
            /\ promises[Pid(r, n, "x3")].st = "pending"}

\* the work functions still executing in state ps: their promise is pending
Executing(ps) == {pid \in DOMAIN ps : pid[3] = "work" /\ ps[pid].st = "pending"}

\* the work invocations the step makes: the "work" records it appends to hist
Invoked == {hist'[i] : i \in {j \in DOMAIN hist' \ DOMAIN hist : hist'[j].e = "work"}}

\* The step in which the promise run r of node n returned is fulfilled: the
\* value reaches the caller's handlers
RunDelivers(r, n) ==
    /\ Pid(r, n, "x3") \in DOMAIN promises
    /\ promises[Pid(r, n, "x3")].st = "pending"
    /\ promises'[Pid(r, n, "x3")].st = "fulfilled"

\* the values the work of n has produced in the runs up to r
OwnResults(r, n) == {WorkResult(q, n) : q \in 1..r}

\* ------------------------------------------------------ running again
\* a name some dependency lists hold and no client ever registers
Unregistered == "d"

\* A client that builds its graph, then calls run() up to MaxReruns times,
\* each call after the promise of the one before has settled, and never
\* changes the graph again.  Everything that was observed is kept.
RerunTaskInputs ==
    {<<"a", <<"string", "b">>>>, <<"a", <<"array", <<"b", "c">>>>>>,
     <<"b", <<"undefined">>>>, <<"b", <<"string", "c">>>>,
     <<"b", <<"string", Unregistered>>>>, <<"b", <<"string", "a">>>>,
     <<"c", <<"undefined">>>>}

NextRerun ==
    \/ \E c \in RerunTaskInputs :
           thrown = "" /\ runs = 0 /\ AddTask(c[1], c[2], Work) /\ UNCHANGED lastCall
    \/ \E n \in Names :
           /\ thrown = ""
           /\ \A r \in 1..runs : RunSettled(r)
           /\ RunWithin(n, MaxReruns)
           /\ UNCHANGED lastCall
    \/ thrown = "" /\ RunMicrotask /\ UNCHANGED lastCall
    \/ \E r \in 1..MaxReruns, n \in Names, ok \in BOOLEAN :
           thrown = "" /\ WorkSettles(r, n, ok) /\ UNCHANGED lastCall
    \/ Caught /\ UNCHANGED lastCall

SpecRerun == Init /\ [][NextRerun]_vars

\* The host runs the queued promise jobs until none is left, an exception
\* reaches the caller of the call that threw it, and every work function that
\* was invoked completes or fails in the end.
LiveRerun ==
    /\ SpecRerun
    /\ WF_vars(thrown = "" /\ RunMicrotask /\ UNCHANGED lastCall)
    /\ WF_vars(Caught /\ UNCHANGED lastCall)
    /\ \A r \in 1..MaxReruns :
           \A n \in Names :
               WF_vars(\E ok \in BOOLEAN :
                          thrown = "" /\ WorkSettles(r, n, ok) /\ UNCHANGED lastCall)

\* ------------------------------------------------------------ C1
\* C1: within one run() call the work function of every node is invoked at
\* most once and the node is entered (onTaskStart, traversal of its
\* dependencies) at most once, however many nodes list it as a dependency.
C1_AtMostOncePerRun ==
    \A r \in 1..MaxRuns, n \in Names :
        /\ Cardinality(Events(hist, "work", r, n)) <= 1
        /\ Cardinality(Events(hist, "start", r, n)) <= 1

\* a diamond a -> {b, c}, b -> c has run to the end: c, reached twice, and a
\* have been invoked
C1_DiamondRan ==
    \E r \in 1..MaxRuns :
        /\ Has(taskMap, "a") /\ taskMap["a"].dependencies = <<"b", "c">>
        /\ Has(taskMap, "b") /\ taskMap["b"].dependencies = <<"c">>
        /\ Has(taskMap, "c")
        /\ Events(hist, "work", r, "c") # {}
        /\ Events(hist, "work", r, "a") # {}


\* ------------------------------------------------------------ C2
\* C2: whenever a node's work function is invoked, the work of every
\* dependency declared for the node at that moment has been invoked and has
\* completed successfully.
C2_DependenciesSettledFirst ==
    \A i \in DOMAIN hist :
        hist[i].e = "work" => Range(hist[i].deps) \subseteq hist[i].done

\* ------------------------------------------------------------ C3
\* C3: when a run of n resolves, the work of n and of every node of the
\* transitive closure of its dependencies was invoked exactly once during
\* that run.
C3_ClosureInvokedOnce ==
    [][\A r \in 1..MaxRuns, n \in Names :
          RunResolves(r, n) =>
              \A m \in Closure(taskMap, n) :
                  Cardinality(Events(hist', "work", r, m)) = 1]_vars

\* ------------------------------------------------------------ C4
\* C4: once the promise returned by the latest run has settled, every node
\* is in its rest state: visited is false and task.promise is empty.
C4_RestStateAfterRun ==
    (runs > 0 /\ RunSettled(runs)) =>
        \A m \in DOMAIN taskMap :
            ~taskMap[m].visited /\ taskMap[m].promise = NoPromise

\* ------------------------------------------------------------ C5
\* C5: after a run that rejected, once the graph has been repaired with the
\* mutation operations so that it is acyclic and complete and all work
\* succeeds, the next run resolves (it does not reject).
C5_RerunnableAfterFailure ==
    [][\A r \in 2..MaxRuns, n \in Names :
          ( /\ r - 1 \in failedRuns
            /\ repairs > 0
            /\ ~Cyclic(taskMap, n)
            /\ Complete(taskMap, n)
            /\ AllWorkSucceeded(hist') )
          => ~RunRejects(r, n, Head(microtasks).val)]_vars

\* ------------------------------------------------------------ C6
\* C6: when a dependency cycle is reachable from the requested node, the run
\* rejects, and it rejects with a cycle error that names a node on a cycle.
C6_CycleRejectsWithCycleError ==
    [][\A r \in 1..MaxRuns, n \in Names :
          Cyclic(taskMap, n) =>
              /\ ~RunResolves(r, n)
              /\ RunRejects(r, n, Head(microtasks).val) =>
                     /\ Head(microtasks).val.kind = "cycle"
                     /\ OnCycle(taskMap, Head(microtasks).val.node)]_vars

\* ------------------------------------------------------------ C7
\* C7: on an acyclic graph whose work all succeeds, a run resolves exactly
\* when the requested node and all its transitive dependencies are
\* registered at the time of the call; otherwise it rejects with a not-found
\* error.
C7_ResolvesIffComplete ==
    [][\A r \in 1..MaxRuns, n \in Names :
          (~Cyclic(taskMap, n) /\ NoWorkFailed(hist', promises')) =>
              /\ RunResolves(r, n) => Complete(taskMap, n)
              /\ RunRejects(r, n, Head(microtasks).val) =>
                     /\ ~Complete(taskMap, n)
                     /\ Head(microtasks).val.kind = "notfound"]_vars

\* ------------------------------------------------------------ C8
\* C8: when the resolution of a dependency of N fails, the work of N is not
\* invoked in that run and onTaskCancel(N) is notified exactly once (never
\* twice for any node, and once for the requested node by the time its run
\* ends); the run rejects, with the unmodified error of a failed resolution.
C8_FailurePropagates ==
    [][\A r \in 1..MaxRuns, n \in Names :
          (RunResolves(r, n) \/ RunRejects(r, n, Head(microtasks).val)) =>
              /\ \A N \in Closure(taskMap, n) :
                     DependencyFails(taskMap, hist', N) =>
                         /\ Events(hist', "work", r, N) = {}
                         /\ Cardinality(Events(hist', "cancel", r, N)) <= 1
              /\ DependencyFails(taskMap, hist', n) =>
                     /\ RunRejects(r, n, Head(microtasks).val)
                     /\ Cardinality(Events(hist', "cancel", r, n)) = 1
                     /\ Head(microtasks).val \in FailureErrors(taskMap, hist', n)]_vars

\* ------------------------------------------------------------ C9
\* C9 as stated: from the run call until the promise it returned settles,
\* every mutation call with valid arguments fails with an error and leaves
\* the graph unchanged; after the promise of the latest run has settled,
\* such calls succeed.
C9_MutationsFailUntilSettled ==
    [][/\ ((\E r \in 1..MaxRuns : RunPending(r)) /\ ValidMutationCall) =>
              (thrown' # "" /\ Graph(taskMap') = Graph(taskMap))
       /\ (runs > 0 /\ RunSettled(runs) /\ ValidMutationCall) => thrown' = ""]_vars

\* C9 amended: while the in-progress flag is set every mutation call fails
\* with the in-progress error and leaves the graph unchanged; the flag is
\* clear once the promise of the latest run has settled; with the flag
\* clear, valid mutation calls succeed.
C9_MutationsFailWhileFlagSet ==
    [][/\ execInProgress =>
              \/ thrown' = InProgressError /\ Graph(taskMap') = Graph(taskMap)
              \/ ~MutationCall
       /\ (runs > 0 /\ RunSettled(runs)) => ~execInProgress
       /\ ~execInProgress => (thrown' = "" \/ ~ValidMutationCall)]_vars

\* a call made during a run has just failed with the in-progress error
C9_CallFailedDuringRun ==
    /\ thrown = InProgressError
    /\ execInProgress
    /\ RunPending(runs)
    /\ hist # <<>>

C11_FlagCoversCallTree ==
    [][/\ ~execInProgress' => Executing(promises') = {}
       /\ \A ev \in Invoked : ev.r \in InFlight']_vars

\* ------------------------------------------------------------ C12
\* C12 as stated: when the promise returned by run(n) is fulfilled, its value
\* is the result of n's own work (not a mapping, not the result of another
\* node) and the in-progress flag is clear.
C12_DeliversOwnResultFlagClear ==
    [][\A r \in 1..MaxRuns, n \in Names :
          RunDelivers(r, n) =>
              /\ promises'[Pid(r, n, "x3")].val \in OwnResults(r, n)
              /\ ~execInProgress']_vars

\* C12 amended: when the promise returned by run(n) is fulfilled, its value
\* is the result of n's own work, and the run has already cleared the
\* in-progress flag: the handler of lines 164-167 has run, and the flag is
\* set at that moment only if a later run has been started since.
C12_DeliversOwnResultFlagReleased ==
    [][\A r \in 1..MaxRuns, n \in Names :
          RunDelivers(r, n) =>
              /\ promises'[Pid(r, n, "x3")].val \in OwnResults(r, n)
              /\ promises[Pid(r, n, "x2")].st = "fulfilled"
              /\ r \notin InFlight
              /\ execInProgress' => runs > r]_vars

\* the run of a node with a dependency has delivered the node's result and
\* the flag is clear
C12_ResultDelivered ==
    /\ ~execInProgress
    /\ \E r \in 1..MaxRuns :
           /\ Pid(r, "a", "x3") \in DOMAIN promises
           /\ promises[Pid(r, "a", "x3")].st = "fulfilled"
           /\ promises[Pid(r, "a", "x3")].val = WorkResult(r, "a")
           /\ Events(hist, "work", r, "b") # {}

\* ------------------------------------------------------------ C13
\* C13: whenever the work of a node is invoked, the mapping it receives has,
\* for every dependency declared for the node, an entry under that name
\* holding a result of that dependency's work; with no dependencies declared
\* the mapping is empty.
C13_MappingHasDeclaredDependencies ==
    \A i \in DOMAIN hist :
        (hist[i].e = "work" /\ hist[i].own) =>
            /\ \A d \in Range(hist[i].deps) :
                   /\ d \in DOMAIN hist[i].args
                   /\ hist[i].args[d] \in OwnResults(hist[i].r, d)
            /\ hist[i].deps = <<>> => hist[i].args = <<>>

\* ------------------------------------------------------------ C14
\* C14: the mapping passed to the work of a node has an entry for exactly
\* the direct and transitive dependencies of the node (checked for the
\* invocations of a first run on a graph that has not changed since).
C14_MappingIsTransitiveClosure ==
    [][\A ev \in Invoked :
          (ev.own /\ runs' = 1 /\ repairs' = 0) =>
              DOMAIN ev.args = Reach(taskMap', Range(taskMap'[ev.n].dependencies))]_vars

\* ------------------------------------------------------------ C15
\* C15: with throwOnOverwrite true, addTask of a registered name fails and
\* leaves the task map unchanged; with throwOnOverwrite false it succeeds and
\* the node then has the new dependencies and the new work, no promise and no
\* visited mark.
C15_OverwriteFollowsOption ==
    [][\A c \in ConfiguredTaskInputs :
          ( /\ ~execInProgress
            /\ Has(taskMap, c[1])
            /\ "throwOnOverwrite" \in DOMAIN options
            /\ AddTask(c[1], c[2], c[3]) ) =>
              IF options.throwOnOverwrite
              THEN thrown' # "" /\ taskMap' = taskMap
              ELSE /\ thrown' = ""
                   /\ taskMap'[c[1]].dependencies = AsArray(c[2])
                   /\ taskMap'[c[1]].task =
                          (IF c[2][1] = "function" THEN c[2][2]
                           ELSE IF c[3] = "undefined" THEN "default" ELSE c[3])
                   /\ taskMap'[c[1]].promise = NoPromise
                   /\ ~taskMap'[c[1]].visited]_vars

\* With throwOnOverwrite false, node c, which the failed run had left with
\* its rejected promise, has just been overwritten by the one graph change
\* made since: it has the new work g and no promise.
C15_StaleNodeOverwritten ==
    /\ "throwOnOverwrite" \in DOMAIN options /\ ~options.throwOnOverwrite
    /\ failedRuns = {1}
    /\ repairs = 1
    /\ Pid(1, "c", "fail") \in DOMAIN promises
    /\ promises[Pid(1, "c", "fail")].st = "rejected"
    /\ Has(taskMap, "c")
    /\ taskMap["c"].promise = NoPromise
    /\ taskMap["c"].task = "g"

\* ------------------------------------------------------------ C16
\* C16: when the engine was constructed without options, or with an options
\* object that does not set throwOnOverwrite, addTask of a registered name
\* fails and leaves the task map unchanged.
C16_ThrowOnOverwriteDefaultsToTrue ==
    [][\A c \in ConfiguredTaskInputs :
          ( /\ ~execInProgress
            /\ Has(taskMap, c[1])
            /\ options = DEFAULT_OPTIONS \/ "throwOnOverwrite" \notin DOMAIN options
            /\ AddTask(c[1], c[2], c[3]) ) =>
              thrown' # "" /\ taskMap' = taskMap]_vars

\* ------------------------------------------------------------ C17
\* C17: addDependencies(name, deps) on a registered node keeps the present
\* dependencies in place and appends each name of deps that is not among
\* them exactly once; doing it again changes nothing; on a name that is not
\* registered it fails and leaves the graph unchanged.
C17_AddDependenciesSetSemantics ==
    [][(thrown = "" /\ lastCall'.op = "addDependencies") =>
          LET name == lastCall'.name
              deps == AsArray(lastCall'.d)
          IN IF Has(taskMap, name)
             THEN LET old == taskMap[name].dependencies
                      new == taskMap'[name].dependencies
                      added == (Len(old) + 1)..Len(new)
                  IN /\ thrown' = ""
                     /\ Len(new) >= Len(old)
                     /\ SubSeq(new, 1, Len(old)) = old
                     /\ Range(new) = Range(old) \cup Range(deps)
                     /\ \A i \in added :
                            /\ new[i] \notin Range(old)
                            /\ \A j \in added : i # j => new[i] # new[j]
                     /\ PushMissing(new, deps, 1) = new
             ELSE thrown' # "" /\ Graph(taskMap') = Graph(taskMap)]_vars

\* addDependencies('c', ['b','b']) has just returned on a node that had the
\* dependency a: b was appended once
C17_AppendedOnce ==
    /\ lastCall = Call("addDependencies", "c", <<"array", <<"b", "b">>>>, <<<<"a">>>>)
    /\ thrown = ""
    /\ Has(taskMap, "c")
    /\ taskMap["c"].dependencies = <<"a", "b">>

\* ------------------------------------------------------------ C18
\* C18: no node's dependency sequence contains the same name twice.
C18_NoDuplicateDependencies ==
    \A n \in DOMAIN taskMap :
        \A i, j \in DOMAIN taskMap[n].dependencies :
            i # j => taskMap[n].dependencies[i] # taskMap[n].dependencies[j]

\* ------------------------------------------------------------ C19
\* C19: removeTask(name) raises no error and deletes the node name, if there
\* is one, and changes no other node and no dependency sequence; a run on an
\* acyclic graph, whose work does not fail, that reaches a name that is not
\* registered does not resolve, and rejects with a not-found error naming
\* such a name.
C19_RemoveTaskLeavesDanglingReferences ==
    [][/\ \A n \in Names :
              (~execInProgress /\ RemoveTask(n)) =>
                  /\ thrown' = ""
                  /\ DOMAIN taskMap' = DOMAIN taskMap \ {n}
                  /\ \A m \in DOMAIN taskMap' : taskMap'[m] = taskMap[m]
       /\ \A r \in 1..MaxRuns, n \in Names :
              ( /\ ~Complete(taskMap, n)
                /\ ~Cyclic(taskMap, n)
                /\ NoWorkFailed(hist', promises') ) =>
                  /\ ~RunResolves(r, n)
                  /\ RunRejects(r, n, Head(microtasks).val) =>
                         /\ Head(microtasks).val.kind = "notfound"
                         /\ Head(microtasks).val.node \in
                                Closure(taskMap, n) \ DOMAIN taskMap]_vars

\* ------------------------------------------------------------ C20
\* C20: removeDependencies(name, deps) raises no error; on a registered node
\* it removes every occurrence of the names of deps from the node's
\* dependencies and keeps the others in their order; it changes no other
\* node, and nothing when name is not registered.
C20_RemoveDependenciesFilters ==
    [][(thrown = "" /\ lastCall'.op = "removeDependencies") =>
          LET name == lastCall'.name
              deps == AsArray(lastCall'.d)
              Kept(x) == x \notin Range(deps)
          IN /\ thrown' = ""
             /\ DOMAIN taskMap' = DOMAIN taskMap
             /\ \A m \in DOMAIN taskMap \ {name} : taskMap'[m] = taskMap[m]
             /\ Has(taskMap, name) =>
                    taskMap'[name] =
                        [taskMap[name] EXCEPT
                            !.dependencies = SelectSeq(taskMap[name].dependencies, Kept)]]_vars

\* removeDependencies('c', 'b') has just returned on a node whose
\* dependencies were b, twice: none is left
C20_EveryOccurrenceRemoved ==
    /\ lastCall = Call("removeDependencies", "c", <<"string", "b">>, <<<<"b", "b">>>>)
    /\ thrown = ""
    /\ Has(taskMap, "c")
    /\ taskMap["c"].dependencies = <<>>

\* ------------------------------------------------------------ C21
\* C21: getTaskList() never throws, also while a run is in progress; it
\* leaves task map (dependencies, visited, promise of every node), in-progress
\* flag, promises and queued jobs as they are; the mapping it returns has
\* exactly the registered names as keys, each with the node's current
\* dependency list.
C21_GetTaskListReadsOnly ==
    [][lastCall'.op = "getTaskList" /\ lastCall.op = ""
       => /\ thrown' = ""
          /\ UNCHANGED <<taskMap, execInProgress, options, promises, microtasks>>
          /\ Len(lastCall'.before) = 1
          /\ DOMAIN lastCall'.before[1] = DOMAIN taskMap
          /\ \A n \in DOMAIN taskMap :
                 lastCall'.before[1][n] = taskMap[n].dependencies]_vars

\* the graph was read while a run was in progress and a node of it had its
\* promise set, and the caller got two nodes with their lists
C21_ReadDuringRun ==
    /\ lastCall.op = "getTaskList"
    /\ execInProgress
    /\ lastCall.before = <<Graph(taskMap)>>
    /\ Cardinality(DOMAIN taskMap) >= 2
    /\ \E n \in DOMAIN taskMap :
           taskMap[n].promise # NoPromise /\ Len(taskMap[n].dependencies) > 0

\* ------------------------------------------------------------ C22
\* the promise run q of node m returned has been fulfilled
RunResolved(q, m) ==
    /\ Pid(q, m, "x3") \in DOMAIN promises
    /\ promises[Pid(q, m, "x3")].st = "fulfilled"

\* the step in which run r of node n hands its outcome on: the handler of
\* lines 164-167 runs with a result, or the one of lines 168-171 with an error
RunEnds(r, n) ==
    /\ microtasks # <<>>
    /\ \/ Head(microtasks).rx = Reaction("x2", r, n, 0) /\ Head(microtasks).st = "fulfilled"
       \/ Head(microtasks).rx = Reaction("x3", r, n, 0) /\ Head(microtasks).st = "rejected"
    /\ microtasks' # microtasks

\* no work invoked in run r has failed
NoFailureIn(h, r) == \A i \in DOMAIN h : h[i].e = "done" /\ h[i].r = r => h[i].ok

\* C22: results are not cached across runs.  After a run of m that resolved,
\* the next run, of m or of a node that depends on m, on the same graph
\* (complete, without cycle) and with no work failing in it, ends with the
\* result its own invocation of the requested node's work produced, and has
\* invoked the work of every node of the requested closure exactly once.
C22_NoCachingAcrossRuns ==
    [][\A r \in 2..MaxReruns, n \in Names :
          /\ RunEnds(r, n)
          /\ \E m \in Closure(taskMap, n) : RunResolved(r - 1, m)
          /\ Complete(taskMap, n) /\ ~Cyclic(taskMap, n)
          /\ NoFailureIn(hist, r)
          => /\ Head(microtasks).st = "fulfilled"
             /\ Head(microtasks).val = WorkResult(r, n)
             /\ \A k \in Closure(taskMap, n) :
                    Cardinality(Events(hist, "work", r, k)) = 1]_vars

\* ------------------------------------------------------------ C23
\* C23: observers do not alter failure propagation.  Whatever observers are
\* configured, and also when onTaskFail or onTaskCancel throws, a run that
\* rejects does so with the underlying task error: the error of a missing
\* node, of a cycle, or of a work function that failed.
C23_ObserversKeepTaskError ==
    [][\A n \in Names, error \in {Head(microtasks).val : i \in 1..Len(microtasks)} :
          RunRejects(1, n, error) => error \in FailureErrors(taskMap, hist, n)]_vars

\* ------------------------------------------------------------ C24
\* C24: for every node N started in a run, once the promise kept in
\* task.promise of N has settled and its continuation has run, whether N's
\* work succeeded, failed or was cancelled, task.promise of N no longer holds
\* that promise and onTaskEnd has been notified for N in that run.
C24_SettledNodeClearedAndEnded ==
    \A r \in 1..MaxRuns, n \in Names :
        /\ Pid(r, n, "end") \in DOMAIN promises
        /\ promises[Pid(r, n, "end")].st # "pending"
        => /\ Events(hist, "end", r, n) # {}
           /\ Has(taskMap, n)
              => taskMap[n].promise \notin {Pid(r, n, "rst"), Pid(r, n, "fail")}

\* ------------------------------------------------------------ C25
\* the fan-in of node N in run r, Promise.all over its dependencies, has rejected
FanInFailed(r, N) ==
    /\ Pid(r, N, "all") \in DOMAIN promises
    /\ promises[Pid(r, N, "all")].st = "rejected"

\* the step rejects the fan-in of N in run r
FanInFails(r, N) ==
    /\ Pid(r, N, "all") \in DOMAIN promises
    /\ promises[Pid(r, N, "all")].st = "pending"
    /\ promises'[Pid(r, N, "all")].st = "rejected"

\* C25: when a dependency of a fan-in fails, the fan-in rejects with that
\* failure, the first to arrive, whatever its siblings are doing; the work of
\* the dependent node is not invoked in that run and the promise the run
\* returned is never fulfilled, so no sibling's result reaches either; the
\* siblings are invoked at most once in the run, and a work function that is
\* executing goes on executing until its own completion.
C25_FirstFailureShortCircuits ==
    /\ [](\A r \in 1..MaxRuns, N \in Names :
            FanInFailed(r, N)
            => /\ Events(hist, "work", r, N) = {}
               /\ \A M \in Names : ~RunResolved(r, M)
               /\ \A k \in Names : Cardinality(Events(hist, "work", r, k)) <= 1)
    /\ [][/\ \A r \in 1..MaxRuns, N \in Names :
               FanInFails(r, N)
               => /\ Head(microtasks).rx = Reaction("allElem", r, N, Head(microtasks).rx.i)
                  /\ Head(microtasks).st = "rejected"
                  /\ promises'[Pid(r, N, "all")].val = Head(microtasks).val
                  /\ Executing(promises') = Executing(promises)
          /\ \A pid \in Executing(promises) :
               \/ pid \in Executing(promises')
               \/ /\ Len(hist') = Len(hist) + 1
                  /\ hist'[Len(hist')].e = "done"
                  /\ Pid(hist'[Len(hist')].r, hist'[Len(hist')].n, "work") = pid]_vars

\* the fan-in of a failed on its missing dependency b and a was cancelled
\* while the work of its sibling c was executing; c then ran to completion
C25_SiblingOutlivedFanIn ==
    /\ FanInFailed(1, "a")
    /\ promises[Pid(1, "a", "all")].val = NotFoundError("b")
    /\ \E i, j \in DOMAIN hist :
           /\ i < j
           /\ hist[i] = [e |-> "cancel", r |-> 1, n |-> "a"]
           /\ hist[j] = [e |-> "done", r |-> 1, n |-> "c", ok |-> TRUE]
    /\ Events(hist, "work", 1, "c") # {}

\* ------------------------------------------------------------ C26
\* the first unregistered name runTask meets when it is called for the names
\* of stack in turn, going into the dependencies of a node (in the order of
\* its list) before going on to the next name; "" when it meets none
RECURSIVE FirstMissing(_, _)
FirstMissing(tm, stack) ==
    IF stack = <<>> THEN ""
    ELSE IF ~Has(tm, Head(stack)) THEN Head(stack)
    ELSE FirstMissing(tm, tm[Head(stack)].dependencies \o Tail(stack))

\* C26: when a run on a graph without cycle, from which several unregistered
\* names can be reached, rejects with a not-found error, the error names the
\* unregistered name the depth-first traversal meets first.
C26_NotFoundNamesFirstMissing ==
    [][\A n \in Names, error \in {Head(microtasks).val : i \in 1..Len(microtasks)} :
          /\ RunRejects(1, n, error)
          /\ error.kind = "notfound"
          /\ ~Cyclic(taskMap, n)
          /\ Cardinality(Closure(taskMap, n) \ DOMAIN taskMap) >= 2
          => error.node = FirstMissing(taskMap, <<n>>)]_vars

\* ------------------------------------------------------------ C27
\* C27: task.visited is true only inside a run() call, for the nodes on the
\* path being traversed.  In every state where no run is in progress, and in
\* every state in which a promise job can run or a work function can
\* complete, visited is false for every node (observers do not throw).
C27_VisitedOnlyDuringTraversal ==
    ~execInProgress \/ microtasks # <<>> \/ Executing(promises) # {}
    => \A n \in DOMAIN taskMap : ~taskMap[n].visited

\* a run is in progress whose traversal came back to a, which it was
\* visiting, and rejected that path with the cycle error
C27_CycleWasTraversed ==
    /\ execInProgress
    /\ \E pid \in DOMAIN promises :
           promises[pid].st = "rejected" /\ promises[pid].val = CycleError("a")
    /\ \A n \in DOMAIN taskMap : ~taskMap[n].visited

\* ------------------------------------------------------------ C28
\* C28: when every invoked work function settles in the end and no observer
\* throws, every run() call settles: the promise it returned is fulfilled or
\* rejected, and the in-progress flag is cleared again; and a run in which a
\* promise was rejected (a missing node, a cycle, a failed work function) is
\* not fulfilled.  Graphs with cycles and with missing nodes included.
C28_EveryRunSettles ==
    /\ \A r \in 1..MaxReruns : (runs >= r) ~> RunSettled(r)
    /\ execInProgress ~> ~execInProgress
    /\ [](\A pid \in DOMAIN promises :
            pid[3] = "x3" /\ promises[pid].st = "fulfilled"
            => \A other \in DOMAIN promises :
                   other[1] = pid[1] => promises[other].st # "rejected")

\* a run on a graph with a cycle has been rejected with the cycle error, the
\* flag is clear and no work is executing
C28_CyclicRunSettled ==
    /\ \E n \in Names :
           /\ Pid(1, n, "x3") \in DOMAIN promises
           /\ promises[Pid(1, n, "x3")].st = "rejected"
           /\ promises[Pid(1, n, "x3")].val.kind = "cycle"
           /\ Cyclic(taskMap, n)
    /\ ~execInProgress
    /\ Executing(promises) = {}

\* ------------------------------------------------------------ C29
\* the nodes runTask enters (onTaskStart) when it is called for the names of
\* stack in turn, in the order it enters them: a name that is not registered
\* or was entered before is passed over, the dependencies of a node are gone
\* into, in the order of its list, before the next name
RECURSIVE StartOrder(_, _, _)
StartOrder(tm, stack, order) ==
    IF stack = <<>> THEN order
    ELSE IF ~Has(tm, Head(stack)) \/ Head(stack) \in Range(order)
    THEN StartOrder(tm, Tail(stack), order)
    ELSE StartOrder(tm, tm[Head(stack)].dependencies \o Tail(stack),
                    Append(order, Head(stack)))

\* the nodes of the onTaskStart notifications of run r, in order
StartsOf(h, r) ==
    LET starts == SelectSeq(h, LAMBDA ev : ev.e = "start" /\ ev.r = r)
    IN [i \in 1..Len(starts) |-> starts[i].n]

\* the places of h with an onTaskEnd, onTaskFail or onTaskCancel notification
\* of node n in run r
Closings(h, r, n) ==
    Events(h, "end", r, n) \cup Events(h, "fail", r, n) \cup Events(h, "cancel", r, n)

\* C29: in every run a node gets at most one onTaskStart; it comes before the
\* node's work is invoked and before the onTaskStart of every dependency first
\* reached through the node (the notifications of a first run follow the
\* depth-first order of the traversal, and in every run a node other than the
\* first is started after a node that lists it).  A started node gets at most
\* one of onTaskEnd, onTaskFail, onTaskCancel, after its onTaskStart:
\* onTaskEnd only when its work succeeded, onTaskFail only when its work
\* failed, onTaskCancel only when its work was not invoked.  And when all
\* invoked work settles, every started node gets one of them in the end
\* (notifications are never taken back, so from some point on no started
\* node is without one).
C29_StartThenOneClosing ==
    /\ [](\A r \in 1..MaxReruns, n \in Names :
            /\ Cardinality(Events(hist, "start", r, n)) <= 1
            /\ Cardinality(Closings(hist, r, n)) <= 1
            /\ \A i \in Events(hist, "work", r, n) \cup Closings(hist, r, n) :
                   \E j \in Events(hist, "start", r, n) : j < i
            /\ \A j \in Events(hist, "start", r, n) :
                   \/ \A i \in 1..(j - 1) : hist[i].r # r
                   \/ \E i \in 1..(j - 1) :
                          /\ hist[i].e = "start" /\ hist[i].r = r
                          /\ Has(taskMap, hist[i].n)
                          /\ n \in Range(taskMap[hist[i].n].dependencies)
            /\ \A i \in Events(hist, "end", r, n) :
                   \E j \in 1..(i - 1) :
                       hist[j] = [e |-> "done", r |-> r, n |-> n, ok |-> TRUE]
            /\ \A i \in Events(hist, "fail", r, n) :
                   \E j \in 1..(i - 1) :
                       hist[j] = [e |-> "done", r |-> r, n |-> n, ok |-> FALSE]
            /\ Events(hist, "cancel", r, n) # {} => Events(hist, "work", r, n) = {})
    /\ [](\A n \in Names :
            Pid(1, n, "x1") \in DOMAIN promises
            => StartsOf(hist, 1) = StartOrder(taskMap, <<n>>, <<>>))
    /\ <>[](\A r \in 1..MaxReruns, n \in Names :
              Events(hist, "start", r, n) # {} => Closings(hist, r, n) # {})

\* a -> {b, c} has run with c failing and b succeeding: a was started first
\* and cancelled, b was ended, c failed
C29_EachKindOfClosing ==
    /\ Has(taskMap, "a") /\ taskMap["a"].dependencies = <<"b", "c">>
    /\ StartsOf(hist, 1) = <<"a", "b", "c">>
    /\ Events(hist, "cancel", 1, "a") # {}
    /\ Events(hist, "end", 1, "b") # {}
    /\ Events(hist, "fail", 1, "c") # {}
    /\ ~execInProgress

\* ------------------------------------------------------------ C30
\* the result of the last successful completion of d's work before place i
\* of h (the value d's promise holds from then on)
ResultBefore(h, i, d) ==
    LET S == {j \in 1..(i - 1) : h[j].e = "done" /\ h[j].n = d /\ h[j].ok}
    IN IF S = {} THEN WorkResult(0, d)
       ELSE WorkResult(h[CHOOSE j \in S : \A k \in S : k <= j].r, d)

\* C30: the mapping passed to the work of a node has one entry per declared
\* dependency, under the dependency's name, holding the result of that
\* dependency's work, whatever the order in which the dependencies settled;
\* and the value run() delivers is the result of the named node's work.
\* Both are determined by the graph and the work results alone.
C30_MappingIndependentOfSettlementOrder ==
    /\ [](\A i \in DOMAIN hist :
            hist[i].e = "work" =>
                hist[i].args = [d \in Range(taskMap[hist[i].n].dependencies) |->
                                   ResultBefore(hist, i, d)])
    /\ [][\A r \in 1..MaxReruns, n \in Names :
            RunDelivers(r, n) =>
                promises'[Pid(r, n, "x3")].val = ResultBefore(hist, Len(hist) + 1, n)]_vars

\* a -> {b, c}: c settled before b, against the order of the list, and a's
\* work was invoked with both results
C30_SettledAgainstListOrder ==
    /\ Has(taskMap, "a") /\ taskMap["a"].dependencies = <<"b", "c">>
    /\ \E i, j, k \in DOMAIN hist :
           /\ i < j /\ j < k
           /\ hist[i] = [e |-> "done", r |-> 1, n |-> "c", ok |-> TRUE]
           /\ hist[j] = [e |-> "done", r |-> 1, n |-> "b", ok |-> TRUE]
           /\ hist[k].e = "work" /\ hist[k].r = 1 /\ hist[k].n = "a"
           /\ hist[k].args = [d \in {"b", "c"} |-> WorkResult(1, d)]

====
